---- MODULE Spec2Model ----
(***************************************************************************)
(* Car listing photo validation: the three pipelines of the repository.    *)
(*   version1_yolo_opencv          detector + bounding-box heuristics       *)
(*   version2_yolo_sam_classifier  detector + mask + orientation scorer     *)
(*   version3_prompt_engineering   one call to a multimodal vision model    *)
(*                                                                         *)
(* An image is described by what the code reads from it: whether the path  *)
(* exists, whether cv2.imread decodes it, its shape, the statistics of its *)
(* grey levels, the raw detections of the YOLO model, the mean colour of   *)
(* its background pixels and the number of very white pixels inside the    *)
(* detected box.  Ratios are compared by cross-multiplication, which       *)
(* agrees with the float comparisons of the source on integer operands.    *)
(***************************************************************************)
EXTENDS Integers, Sequences, FiniteSets, TLC

VARIABLES pipeline, mode, pc, last, image_dir, image_files, results, written

vars ==
  <<pipeline, mode, pc, last, image_dir, image_files, results, written>>

Pipelines == {"v1", "v2", "v3"}
Modes == {"simple", "detailed"}

(***************************************************************************)
(* Bounds of the model.                                                    *)
(***************************************************************************)
MaxFiles == 2

(***************************************************************************)
(* Program constants.  Fractions are kept as hundredths or tenths.         *)
(***************************************************************************)
V1_MIN_RESOLUTION == 100
V1_TOO_DARK == 30
V1_TOO_BRIGHT == 250
V1_SIZE_RATIO_PCT == 25
V1_WHITE_THRESHOLD == 180
V1_SIDE_VIEW_TENTHS == 18
V1_LEFT_LOW_TENTHS == 3
V1_LEFT_HIGH_TENTHS == 8
CAR_CLASS == 2
CONF_THRESHOLD_PCT == 50

V2_MIN_RESOLUTION == 200
V2_TOO_DARK == 50
V2_TOO_BRIGHT == 240
V2_LOW_CONTRAST == 20
V2_BLUR_FLOOR == 100
V2_PENALTY_RESOLUTION == 3
V2_PENALTY_BRIGHTNESS == 2
V2_PENALTY_CONTRAST == 2
V2_PENALTY_BLUR == 3
V2_VALID_SCORE_TENTHS == 5
V2_MAX_ISSUES == 3
V2_AREA_RATIO_PCT == 20
V2_WHITE_THRESHOLD == 200
V2_COLOR_BALANCE_THRESHOLD == 20
V2_KEEP_TENTHS == 6
V2_SIDE_HIGH_TENTHS == 29
V2_SIDE_BAND_LOW_PCT == 215
V2_SIDE_BAND_HIGH_TENTHS == 22
V2_POS_LOW_PCT == 48
V2_POS_HIGH_PCT == 51
V2_SPACE_EDGE_PCT == 15
V2_SPACE_BAL_LOW_TENTHS == 7
V2_SPACE_BAL_HIGH_TENTHS == 10
V2_SPACE_MID_LOW_TENTHS == 4
V2_SPACE_MID_HIGH_PCT == 69
V2_FACING_SCORE == 2

(***************************************************************************)
(* datetime.now().isoformat(): the clock is not modelled, the field is.    *)
(***************************************************************************)
Now == "now"


(***************************************************************************)
(* File names are sequences of tokens, the last one the extension, so that *)
(* os.path.splitext, str.lower and str.replace can be modelled by what     *)
(* they do.  Names is in the order sorted() gives these names.             *)
(***************************************************************************)
Names ==
  << <<"Car", ".PNG">>, <<"car", ".bmp">>, <<"car", ".jpg">>,
     <<"car", ".png">>, <<"car", ".webp">>, <<"notes", ".txt">> >>

NameSet == {Names[i] : i \in 1..Len(Names)}

(***************************************************************************)
(* Bounding boxes <<x1, y1, x2, y2>> and image shapes <<height, width>>.   *)
(***************************************************************************)
Boxes ==
  { <<0, 0, 20, 20>>, <<40, 0, 200, 90>>, <<40, 0, 140, 10>>,
    <<0, 0, 240, 10>>, <<0, 0, 100, 300>>, <<0, 0, 240, 140>>,
    <<0, 0, 236, 128>>, <<0, 0, 260, 120>>, <<20, 0, 280, 120>>,
    <<0, 0, 400, 300>> }

Shapes == { <<90, 400>>, <<150, 400>>, <<300, 400>> }

Det(cls, conf, box) == [cls |-> cls, conf |-> conf, bbox |-> box]

(* Raw detections of the YOLO model: class id, confidence in percent, box. *)
DetLists ==
  { <<>> }
  \cup { <<Det(2, 90, b)>> : b \in Boxes }
  \cup { <<Det(2, 50, <<0, 0, 260, 120>>)>>,
         <<Det(7, 90, <<0, 0, 260, 120>>)>>,
         <<Det(2, 60, <<0, 0, 20, 20>>), Det(2, 80, <<0, 0, 260, 120>>)>>,
         <<Det(2, 80, <<0, 0, 260, 120>>), Det(2, 80, <<0, 0, 20, 20>>)>> }

(* Mean colour of the background pixels, one value per channel. *)
Backgrounds ==
  { <<230, 230, 230>>, <<190, 190, 190>>, <<210, 205, 150>>,
    <<250, 225, 210>>, <<100, 100, 100>> }

Brightnesses == {20, 40, 128, 245, 252}
Contrasts == {10, 50}
Blurs == {50, 500}
(* Share of the box's pixels that are >= 240 in every channel, in percent. *)
WhiteShares == {0, 40, 50}

(* Stage at which an unanticipated exception is raised, if any; only    *)
(* version 2 has a segmentation stage.                                  *)
Faults(pl) ==
  {"none", "imread", "quality", "detect", "evaluate"}
  \cup (IF pl = "v2" THEN {"segment"} ELSE {})

Fits(box, shape) == box[3] <= shape[2] /\ box[4] <= shape[1]

GoodImage ==
  [exists |-> TRUE, readable |-> TRUE, fault |-> "none",
   shape |-> <<300, 400>>, brightness |-> 128, contrast |-> 50, blur |-> 500,
   dets |-> <<Det(2, 90, <<0, 0, 260, 120>>)>>,
   bg |-> <<230, 230, 230>>, white |-> 0]

(* Images the heuristic pipelines are run on.  Version 1 reads neither the *)
(* contrast, the blur nor the white share, which stay at their defaults.   *)
Decoded(pl) ==
  { w \in [exists : {TRUE}, readable : {TRUE}, fault : {"none"},
           shape : Shapes, brightness : Brightnesses,
           contrast : IF pl = "v2" THEN Contrasts ELSE {GoodImage.contrast},
           blur : IF pl = "v2" THEN Blurs ELSE {GoodImage.blur},
           dets : DetLists, bg : Backgrounds,
           white : IF pl = "v2" THEN WhiteShares ELSE {GoodImage.white}] :
      \A i \in 1..Len(w.dets) : Fits(w.dets[i].bbox, w.shape) }

(* np.mean(bg_pixels, axis=0) of a list of pixels: the mean per channel. *)
RECURSIVE SumChannel(_, _)
SumChannel(pixels, c) ==
  IF pixels = <<>> THEN 0 ELSE Head(pixels)[c] + SumChannel(Tail(pixels), c)

ChannelMeans(pixels) ==
  << SumChannel(pixels, 1) \div Len(pixels),
     SumChannel(pixels, 2) \div Len(pixels),
     SumChannel(pixels, 3) \div Len(pixels) >>

(* A background of two kinds of pixels in equal numbers, each tinted, whose *)
(* channel means are equal.                                                *)
TintedPixels == << <<250, 210, 230>>, <<210, 250, 230>> >>

(* Further images: a box of 30% of the image, twice as wide as high and   *)
(* centred, on a background of (200,200,200); three detections of which    *)
(* the first and the last are equally confident; wide boxes with more,    *)
(* and with about half as much, space on their left as on their right;     *)
(* and, for version 2, boxes of which 41% and 100% of the pixels are very  *)
(* white, and a background given by its pixels.                            *)
Samples(pl) ==
  { [GoodImage EXCEPT !.shape = <<120, 200>>,
                      !.dets = <<Det(2, 90, <<40, 0, 160, 60>>)>>,
                      !.bg = <<200, 200, 200>>],
    [GoodImage EXCEPT !.dets = <<Det(2, 90, <<0, 0, 260, 120>>),
                                 Det(2, 60, <<0, 0, 20, 20>>),
                                 Det(2, 90, <<0, 0, 240, 140>>)>>],
    [GoodImage EXCEPT !.dets = <<Det(2, 90, <<60, 0, 348, 96>>)>>],
    [GoodImage EXCEPT !.dets = <<Det(2, 90, <<20, 0, 364, 100>>)>>],
    [GoodImage EXCEPT !.dets = <<Det(2, 90, <<40, 0, 321, 90>>)>>] }
  \cup (IF pl = "v2"
          THEN { [GoodImage EXCEPT !.white = w] : w \in {41, 100} }
               \cup { [f \in DOMAIN GoodImage \cup {"bg_pixels"} |->
                         CASE f = "bg_pixels" -> TintedPixels
                           [] f = "bg" -> ChannelMeans(TintedPixels)
                           [] OTHER -> GoodImage[f]] }
          ELSE {})

Images(pl) ==
  Decoded(pl) \cup Samples(pl)
  \cup { [GoodImage EXCEPT !.exists = FALSE],
         [GoodImage EXCEPT !.readable = FALSE] }
  \cup { [GoodImage EXCEPT !.fault = f] : f \in Faults(pl) \ {"none"} }

(* str(e) of the exception raised at a stage. *)
str_e(wd) == "failure in " \o wd.fault

(* rec with rec[field] = value: result["field"] = value, result.update(...) *)
With(rec, field, value) ==
  [x \in DOMAIN rec \cup {field} |-> IF x = field THEN value ELSE rec[x]]

(***************************************************************************)
(* Version 1: version1_yolo_opencv                                         *)
(***************************************************************************)
BoxWidth(bbox) == bbox[3] - bbox[1]
BoxHeight(bbox) == bbox[4] - bbox[2]
BoxArea(bbox) == BoxWidth(bbox) * BoxHeight(bbox)
ImgArea(shape) == shape[1] * shape[2]

(* Mutant: a box that covers more than half of the image is rejected too. *)
V1_check_size_ratio_band(bbox, shape) ==
  /\ BoxArea(bbox) * 100 >= V1_SIZE_RATIO_PCT * ImgArea(shape)
  /\ BoxArea(bbox) * 2 <= ImgArea(shape)

(* box_area / img_area >= 0.25 *)
V1_check_size_ratio(bbox, shape) ==
  BoxArea(bbox) * 100 >= V1_SIZE_RATIO_PCT * ImgArea(shape)

(* Mutant: the brightness threshold of version 2 is applied. *)
V1_check_background_white_200(wd, bbox) ==
  IF ImgArea(wd.shape) - BoxArea(bbox) = 0
    THEN FALSE
    ELSE \A c \in 1..3 : wd.bg[c] > V2_WHITE_THRESHOLD

(* The background is what lies outside the box; none left: fail closed. *)
V1_check_background_white(wd, bbox) ==
  IF ImgArea(wd.shape) - BoxArea(bbox) = 0
    THEN FALSE
    ELSE \A c \in 1..3 : wd.bg[c] > V1_WHITE_THRESHOLD

(* aspect_ratio = width / height if height > 0 else 0;  >= 1.8 *)
V1_heuristic_orientation_check(bbox) ==
  IF BoxHeight(bbox) > 0
    THEN BoxWidth(bbox) * 10 >= V1_SIDE_VIEW_TENTHS * BoxHeight(bbox)
    ELSE FALSE

(* 0.3 <= ((x1 + x2) // 2) / image_width <= 0.8 *)
V1_check_car_orientation_left(bbox, shape) ==
  LET car_center_x == (bbox[1] + bbox[3]) \div 2
  IN  /\ car_center_x * 10 >= V1_LEFT_LOW_TENTHS * shape[2]
      /\ car_center_x * 10 <= V1_LEFT_HIGH_TENTHS * shape[2]

(* Mutant: the gate lets every image through. *)
V1_validate_image_quality_open(wd) == [is_valid |-> TRUE, msg |-> "OK"]

(* Mutant: the brightness is looked at before the resolution. *)
V1_validate_image_quality_brightness_first(wd) ==
  IF wd.brightness < V1_TOO_DARK
    THEN [is_valid |-> FALSE, msg |-> "Image too dark"]
  ELSE IF wd.brightness > V1_TOO_BRIGHT
    THEN [is_valid |-> FALSE, msg |-> "Image too bright"]
  ELSE IF wd.shape[1] < V1_MIN_RESOLUTION \/ wd.shape[2] < V1_MIN_RESOLUTION
    THEN [is_valid |-> FALSE, msg |-> "Image resolution too low"]
  ELSE [is_valid |-> TRUE, msg |-> "OK"]

(* The first failing check returns: resolution, then brightness. *)
V1_validate_image_quality(wd) ==
  IF wd.shape[1] < V1_MIN_RESOLUTION \/ wd.shape[2] < V1_MIN_RESOLUTION
    THEN [is_valid |-> FALSE, msg |-> "Image resolution too low"]
  ELSE IF wd.brightness < V1_TOO_DARK
    THEN [is_valid |-> FALSE, msg |-> "Image too dark"]
  ELSE IF wd.brightness > V1_TOO_BRIGHT
    THEN [is_valid |-> FALSE, msg |-> "Image too bright"]
  ELSE [is_valid |-> TRUE, msg |-> "OK"]

NoCar == [is_car |-> FALSE, bbox |-> <<>>]

(* The loop of detect_car: a car above the threshold replaces the best one *)
(* only when strictly more confident.                                      *)
RECURSIVE V1_best_car(_, _, _)
V1_best_car(dets, best_confidence, best) ==
  IF dets = <<>> THEN best
  ELSE LET r == Head(dets)
       IN  IF r.cls = CAR_CLASS /\ r.conf > CONF_THRESHOLD_PCT
              /\ r.conf > best_confidence
             THEN V1_best_car(Tail(dets), r.conf,
                              [is_car |-> TRUE, bbox |-> r.bbox])
             ELSE V1_best_car(Tail(dets), best_confidence, best)

(* An exception of the model call is caught inside detect_car. *)
V1_detect_car(wd) ==
  IF wd.fault = "detect" THEN NoCar ELSE V1_best_car(wd.dets, 0, NoCar)

(* Mutant: the background is reported before the size. *)
V1_failure_reasons_swapped(size_ok, background_white, side_view, facing_left) ==
  (IF ~background_white
     THEN <<"Background is not sufficiently white">> ELSE <<>>)
  \o (IF ~size_ok
        THEN <<"Car does not occupy sufficient portion of image (< 1/4)">>
        ELSE <<>>)
  \o (IF ~side_view
        THEN <<"Car does not appear to be in side view (width/height ratio)">>
        ELSE <<>>)
  \o (IF ~facing_left
        THEN <<"Car does not appear to be facing left">> ELSE <<>>)

V1_failure_reasons(size_ok, background_white, side_view, facing_left) ==
  (IF ~size_ok
     THEN <<"Car does not occupy sufficient portion of image (< 1/4)">>
     ELSE <<>>)
  \o (IF ~background_white
        THEN <<"Background is not sufficiently white">> ELSE <<>>)
  \o (IF ~side_view
        THEN <<"Car does not appear to be in side view (width/height ratio)">>
        ELSE <<>>)
  \o (IF ~facing_left
        THEN <<"Car does not appear to be facing left">> ELSE <<>>)

(* Mutant: the facing direction is left out of the verdict. *)
V1_all_passed_lax(is_car, size_ok, background_white, side_view, facing_left) ==
  is_car /\ size_ok /\ background_white /\ side_view

V1_all_passed(is_car, size_ok, background_white, side_view, facing_left) ==
  is_car /\ size_ok /\ background_white /\ side_view /\ facing_left

V1_MODEL_USED == "yolov8n + opencv"

(* The record of the "File not found" return. *)
V1_file_not_found ==
  [result |-> "Error", error |-> "File not found", timestamp |-> Now]

(* Mutant: a rejected image is reported as a failed validation. *)
V1_quality_error_as_no(quality_msg) ==
  [result |-> "No", error |-> "Image quality issue: " \o quality_msg,
   timestamp |-> Now]

(* The record of the quality-gate return. *)
V1_quality_error(quality_msg) ==
  [result |-> "Error", error |-> "Image quality issue: " \o quality_msg,
   timestamp |-> Now]

(* The record returned when no car is detected. *)
V1_no_car(image_path) ==
  [result |-> "No",
   criteria |-> [contains_car |-> FALSE, side_view |-> FALSE,
                 white_background |-> FALSE, proper_size |-> FALSE,
                 correct_orientation |-> FALSE],
   failure_reasons |-> <<"No car detected in image">>,
   timestamp |-> Now, model_used |-> V1_MODEL_USED,
   image_path |-> image_path]

(* The except branch of verify_image. *)
V1_exception(image_path, wd) ==
  [result |-> "Error", error |-> str_e(wd), timestamp |-> Now,
   image_path |-> image_path]

(* Steps 2 and after of verify_image: the criteria and the verdict. *)
V1_evaluate(image_path, wd, det) ==
  LET size_ok == V1_check_size_ratio(det.bbox, wd.shape)
      background_white == V1_check_background_white(wd, det.bbox)
      side_view == V1_heuristic_orientation_check(det.bbox)
      facing_left == V1_check_car_orientation_left(det.bbox, wd.shape)
      all_passed == V1_all_passed(det.is_car, size_ok, background_white,
                                  side_view, facing_left)
      result ==
        [result |-> IF all_passed THEN "Yes" ELSE "No",
         criteria |-> [contains_car |-> det.is_car, side_view |-> side_view,
                       white_background |-> background_white,
                       proper_size |-> size_ok,
                       correct_orientation |-> facing_left],
         timestamp |-> Now, model_used |-> V1_MODEL_USED,
         image_path |-> image_path]
  IN  IF all_passed THEN result
      ELSE With(result, "failure_reasons",
                V1_failure_reasons(size_ok, background_white, side_view,
                                   facing_left))

(* verify_image of version 1: the record returned and, in order, the      *)
(* collaborators it invoked.  The mode does not change the record.         *)
V1_verify_image(image_path, m, wd) ==
  IF ~wd.exists
    THEN [res |-> V1_file_not_found, calls |-> <<>>]
  ELSE IF wd.fault = "imread"
    THEN [res |-> V1_exception(image_path, wd), calls |-> <<"imread">>]
  ELSE IF ~wd.readable
    THEN [res |-> [result |-> "Error", error |-> "Invalid image format",
                   timestamp |-> Now],
          calls |-> <<"imread">>]
  ELSE IF wd.fault = "quality"
    THEN [res |-> V1_exception(image_path, wd),
          calls |-> <<"imread", "validate_image_quality">>]
  ELSE IF ~V1_validate_image_quality(wd).is_valid
    THEN [res |-> V1_quality_error(V1_validate_image_quality(wd).msg),
          calls |-> <<"imread", "validate_image_quality">>]
  ELSE LET det == V1_detect_car(wd)
           upto == <<"imread", "validate_image_quality", "detect_car">>
       IN  IF ~det.is_car \/ det.bbox = <<>>
             THEN [res |-> V1_no_car(image_path), calls |-> upto]
           ELSE IF wd.fault = "evaluate"
             THEN [res |-> V1_exception(image_path, wd),
                   calls |-> upto \o <<"evaluate">>]
           ELSE [res |-> V1_evaluate(image_path, wd, det),
                 calls |-> upto \o <<"evaluate">>]

(***************************************************************************)
(* Version 2: version2_yolo_sam_classifier                                 *)
(***************************************************************************)
Max(a, b) == IF a >= b THEN a ELSE b
Max3(t) == Max(t[1], Max(t[2], t[3]))
Min3(t) == -Max(-t[1], Max(-t[2], -t[3]))

RECURSIVE Join(_, _)
(* sep.join(strs) *)
Join(strs, sep) ==
  IF strs = <<>> THEN ""
  ELSE IF Len(strs) = 1 THEN strs[1]
  ELSE strs[1] \o sep \o Join(Tail(strs), sep)

(* Mutant: a score of exactly 0.5 is accepted. *)
V2_is_valid_inclusive(quality_score, issues) ==
  quality_score >= V2_VALID_SCORE_TENTHS /\ Len(issues) < V2_MAX_ISSUES

(* is_valid = quality_score > 0.5 and len(issues) < 3 *)
V2_is_valid(quality_score, issues) ==
  quality_score > V2_VALID_SCORE_TENTHS /\ Len(issues) < V2_MAX_ISSUES

(* The quality score is kept in tenths. *)
V2_validate_image_quality(wd) ==
  LET low_res == wd.shape[1] < V2_MIN_RESOLUTION
                 \/ wd.shape[2] < V2_MIN_RESOLUTION
      dark == wd.brightness < V2_TOO_DARK
      bright == ~dark /\ wd.brightness > V2_TOO_BRIGHT
      flat == wd.contrast < V2_LOW_CONTRAST
      blurry == wd.blur < V2_BLUR_FLOOR
      issues ==
        (IF low_res THEN <<"Low resolution">> ELSE <<>>)
        \o (IF dark THEN <<"Too dark">> ELSE <<>>)
        \o (IF bright THEN <<"Too bright/overexposed">> ELSE <<>>)
        \o (IF flat THEN <<"Low contrast">> ELSE <<>>)
        \o (IF blurry THEN <<"Image appears blurry">> ELSE <<>>)
      raw == 10 - (IF low_res THEN V2_PENALTY_RESOLUTION ELSE 0)
                - (IF dark \/ bright THEN V2_PENALTY_BRIGHTNESS ELSE 0)
                - (IF flat THEN V2_PENALTY_CONTRAST ELSE 0)
                - (IF blurry THEN V2_PENALTY_BLUR ELSE 0)
      quality_score == Max(0, raw)
  IN  [is_valid |-> V2_is_valid(quality_score, issues),
       quality_score |-> quality_score,
       issues |-> issues]

(* Mutant: of equally confident detections the last one is kept. *)
RECURSIVE V2_max_detection_last(_, _)
V2_max_detection_last(dets, best) ==
  IF dets = <<>> THEN best
  ELSE IF Head(dets).conf >= best.conf
    THEN V2_max_detection_last(Tail(dets), Head(dets))
    ELSE V2_max_detection_last(Tail(dets), best)

(* max(car_detections, key=confidence): the first of the most confident. *)
RECURSIVE V2_max_detection(_, _)
V2_max_detection(dets, best) ==
  IF dets = <<>> THEN best
  ELSE IF Head(dets).conf > best.conf
    THEN V2_max_detection(Tail(dets), Head(dets))
    ELSE V2_max_detection(Tail(dets), best)

V2_detect_car(wd) ==
  LET car_detections ==
        SelectSeq(wd.dets,
                  LAMBDA d : d.cls = CAR_CLASS /\ d.conf > CONF_THRESHOLD_PCT)
  IN  IF Len(wd.dets) = 0 \/ car_detections = <<>> THEN NoCar
      ELSE [is_car |-> TRUE,
            bbox |-> V2_max_detection(Tail(car_detections),
                                      Head(car_detections)).bbox]

(* Mutant: the exclusion is discarded already when exactly 60% remain. *)
V2_segment_car_inclusive(wd, bbox) ==
  LET total_pixels == BoxArea(bbox)
      very_white == (total_pixels * wd.white) \div 100
      car_pixels == total_pixels - very_white
      kept == IF wd.fault = "segment" THEN total_pixels
              ELSE IF car_pixels * 10 <= total_pixels * V2_KEEP_TENTHS
                THEN total_pixels
              ELSE car_pixels
  IN  [car_pixels |-> kept, car_outside |-> 0, size |-> ImgArea(wd.shape)]

(* segment_car: the mask, by its number of car pixels, of car pixels       *)
(* outside the box (the mask starts as zeros and only the box is written)  *)
(* and of all pixels.  Very white pixels of the box are excluded unless    *)
(* fewer than 60% of the box would remain; any failure falls back to the   *)
(* whole box.                                                              *)
V2_segment_car(wd, bbox) ==
  LET total_pixels == BoxArea(bbox)
      very_white == (total_pixels * wd.white) \div 100
      car_pixels == total_pixels - very_white
      kept == IF wd.fault = "segment" THEN total_pixels
              ELSE IF car_pixels * 10 < total_pixels * V2_KEEP_TENTHS
                THEN total_pixels
              ELSE car_pixels
  IN  [car_pixels |-> kept, car_outside |-> 0, size |-> ImgArea(wd.shape)]

(* car_pixels / total_pixels >= 0.20 *)
V2_check_area_ratio(mask) ==
  mask.car_pixels * 100 >= V2_AREA_RATIO_PCT * mask.size

(* is_bright = np.all(avg_color > white_threshold) *)
V2_is_bright(avg_color) == \A c \in 1..3 : avg_color[c] > V2_WHITE_THRESHOLD

(* Mutant: the channel balance is not looked at. *)
V2_is_balanced_any(avg_color) == Max3(avg_color) - Min3(avg_color) >= 0

(* is_balanced = np.max(avg_color) - np.min(avg_color) < threshold *)
V2_is_balanced(avg_color) ==
  Max3(avg_color) - Min3(avg_color) < V2_COLOR_BALANCE_THRESHOLD

(* The sum over the pixels of each pixel's largest minus smallest channel. *)
RECURSIVE SumSpread(_)
SumSpread(pixels) ==
  IF pixels = <<>> THEN 0
  ELSE Max3(Head(pixels)) - Min3(Head(pixels)) + SumSpread(Tail(pixels))

(* Mutant: the balance is the spread of each pixel, averaged over the      *)
(* background, where the pixels are known.                                 *)
V2_check_white_background_per_pixel(wd, mask) ==
  IF mask.size - mask.car_pixels = 0 THEN FALSE
  ELSE IF "bg_pixels" \in DOMAIN wd
    THEN /\ V2_is_bright(wd.bg)
         /\ SumSpread(wd.bg_pixels)
              < V2_COLOR_BALANCE_THRESHOLD * Len(wd.bg_pixels)
    ELSE V2_is_bright(wd.bg) /\ V2_is_balanced(wd.bg)

(* The background is where mask == 0; the balance is taken on the means. *)
V2_check_white_background(wd, mask) ==
  IF mask.size - mask.car_pixels = 0 THEN FALSE
  ELSE V2_is_bright(wd.bg) /\ V2_is_balanced(wd.bg)

(* aspect_ratio >= 2.9, or 2.15 <= aspect_ratio <= 2.2 *)
V2_side_view(bbox) ==
  LET width == BoxWidth(bbox)
      height == BoxHeight(bbox)
  IN  IF height > 0
        THEN \/ width * 10 >= V2_SIDE_HIGH_TENTHS * height
             \/ /\ width * 100 >= V2_SIDE_BAND_LOW_PCT * height
                /\ width * 10 <= V2_SIDE_BAND_HIGH_TENTHS * height
        ELSE FALSE

(* 0.48 <= relative_position <= 0.51 *)
V2_position_factor(bbox, shape) ==
  LET car_center_x == (bbox[1] + bbox[3]) \div 2
  IN  /\ car_center_x * 100 >= V2_POS_LOW_PCT * shape[2]
      /\ car_center_x * 100 <= V2_POS_HIGH_PCT * shape[2]

(* Mutant: the position counts as much as a good space ratio. *)
V2_facing_left_score_position(bbox, shape) ==
  LET left_space == bbox[1]
      right_space == shape[2] - bbox[3]
      den == right_space + 1
  IN  (IF V2_position_factor(bbox, shape) THEN 2 ELSE 0)
      + (IF left_space * 100 <= V2_SPACE_EDGE_PCT * den THEN 2
         ELSE IF /\ left_space * 10 >= V2_SPACE_BAL_LOW_TENTHS * den
                 /\ left_space * 10 <= V2_SPACE_BAL_HIGH_TENTHS * den THEN 2
         ELSE IF /\ left_space * 10 >= V2_SPACE_MID_LOW_TENTHS * den
                 /\ left_space * 100 <= V2_SPACE_MID_HIGH_PCT * den THEN 1
         ELSE 0)

(* The score of the left-facing test; space_ratio = left / (right + 1). *)
V2_facing_left_score(bbox, shape) ==
  LET left_space == bbox[1]
      right_space == shape[2] - bbox[3]
      den == right_space + 1
  IN  (IF V2_position_factor(bbox, shape) THEN 1 ELSE 0)
      + (IF left_space * 100 <= V2_SPACE_EDGE_PCT * den THEN 2
         ELSE IF /\ left_space * 10 >= V2_SPACE_BAL_LOW_TENTHS * den
                 /\ left_space * 10 <= V2_SPACE_BAL_HIGH_TENTHS * den THEN 2
         ELSE IF /\ left_space * 10 >= V2_SPACE_MID_LOW_TENTHS * den
                 /\ left_space * 100 <= V2_SPACE_MID_HIGH_PCT * den THEN 1
         ELSE 0)

(* Mutant: the facing direction is scored whatever the side view. *)
V2_classify_orientation_unguarded(wd, bbox) ==
  LET score == V2_facing_left_score(bbox, wd.shape)
  IN  [side_view |-> V2_side_view(bbox),
       facing_left |-> score >= V2_FACING_SCORE,
       confidence_scores |->
         [aspect_ratio |->
            IF BoxHeight(bbox) > 0
              THEN <<BoxWidth(bbox), BoxHeight(bbox)>> ELSE <<0, 1>>,
          position |-> <<(bbox[1] + bbox[3]) \div 2, wd.shape[2]>>,
          left_facing_factors |->
            [position_factor |-> V2_position_factor(bbox, wd.shape),
             left_bias |-> TRUE,
             left_space |-> bbox[1],
             right_space |-> wd.shape[2] - bbox[3],
             facing_score |-> score,
             space_ratio |-> <<bbox[1], wd.shape[2] - bbox[3] + 1>>]]]

(* classify_orientation; ratios are reported as <<numerator, denominator>>. *)
V2_classify_orientation(wd, bbox) ==
  LET side_view == V2_side_view(bbox)
      score == V2_facing_left_score(bbox, wd.shape)
      base == [aspect_ratio |->
                 IF BoxHeight(bbox) > 0
                   THEN <<BoxWidth(bbox), BoxHeight(bbox)>> ELSE <<0, 1>>,
               position |-> <<(bbox[1] + bbox[3]) \div 2, wd.shape[2]>>]
      factors == [position_factor |-> V2_position_factor(bbox, wd.shape),
                  left_bias |-> TRUE,
                  left_space |-> bbox[1],
                  right_space |-> wd.shape[2] - bbox[3],
                  facing_score |-> score,
                  space_ratio |-> <<bbox[1], wd.shape[2] - bbox[3] + 1>>]
  IN  IF side_view
        THEN [side_view |-> TRUE,
              facing_left |-> score >= V2_FACING_SCORE,
              confidence_scores |->
                With(base, "left_facing_factors", factors)]
        ELSE [side_view |-> FALSE, facing_left |-> FALSE,
              confidence_scores |-> base]

(* Mutant: a car facing the wrong way gets no sentence. *)
V2_failure_reasons_short(area_ok, background_white, side_view, facing_left) ==
  (IF ~area_ok
     THEN <<"Car does not occupy sufficient portion of image (< 20%)">>
     ELSE <<>>)
  \o (IF ~background_white
        THEN <<"Background is not sufficiently white">> ELSE <<>>)
  \o (IF ~side_view
        THEN <<"Car does not appear to be in side view">> ELSE <<>>)

V2_failure_reasons(area_ok, background_white, side_view, facing_left) ==
  (IF ~area_ok
     THEN <<"Car does not occupy sufficient portion of image (< 20%)">>
     ELSE <<>>)
  \o (IF ~background_white
        THEN <<"Background is not sufficiently white">> ELSE <<>>)
  \o (IF ~side_view
        THEN <<"Car does not appear to be in side view">> ELSE <<>>)
  \o (IF ~facing_left
        THEN <<"Car does not appear to be facing left">> ELSE <<>>)

V2_all_passed(is_car, area_ok, background_white, side_view, facing_left) ==
  is_car /\ area_ok /\ background_white /\ side_view /\ facing_left

V2_MODEL_USED == "yolov8n + sam + classifier"

(* The record of the "File not found" return. *)
V2_file_not_found ==
  [result |-> "Error", error |-> "File not found", timestamp |-> Now]

(* Mutant: the quality-gate return copies the criteria block. *)
V2_quality_error_with_criteria(quality) ==
  [result |-> "Error",
   error |-> "Image quality issues: " \o Join(quality.issues, ", "),
   criteria |-> [contains_car |-> FALSE, proper_segmentation |-> FALSE,
                 white_background |-> FALSE, proper_size |-> FALSE,
                 side_view |-> FALSE, facing_left |-> FALSE],
   quality_score |-> quality.quality_score, timestamp |-> Now]

(* The record of the quality-gate return. *)
V2_quality_error(quality) ==
  [result |-> "Error",
   error |-> "Image quality issues: " \o Join(quality.issues, ", "),
   quality_score |-> quality.quality_score, timestamp |-> Now]

(* Mutant: the criteria are added whatever the mode. *)
V2_no_car_any_mode(image_path, m, quality) ==
  [result |-> "No",
   failure_reasons |-> <<"No car detected in image">>,
   timestamp |-> Now, model_used |-> V2_MODEL_USED,
   criteria |-> [contains_car |-> FALSE, proper_segmentation |-> FALSE,
                 white_background |-> FALSE, proper_size |-> FALSE,
                 side_view |-> FALSE, facing_left |-> FALSE],
   image_path |-> image_path, quality_score |-> quality.quality_score]

(* The record returned when no car is detected. *)
V2_no_car(image_path, m, quality) ==
  LET result == [result |-> "No",
                 failure_reasons |-> <<"No car detected in image">>,
                 timestamp |-> Now, model_used |-> V2_MODEL_USED]
  IN  IF m = "detailed"
        THEN With(With(With(result, "criteria",
                 [contains_car |-> FALSE, proper_segmentation |-> FALSE,
                  white_background |-> FALSE, proper_size |-> FALSE,
                  side_view |-> FALSE, facing_left |-> FALSE]),
               "image_path", image_path),
               "quality_score", quality.quality_score)
        ELSE result

(* Mutant: the exception text is stored under another key. *)
V2_exception_as_message(wd) ==
  [result |-> "Error", message |-> "Processing error: " \o str_e(wd),
   timestamp |-> Now]

(* The except branch of verify_image. *)
V2_exception(wd) ==
  [result |-> "Error", error |-> "Processing error: " \o str_e(wd),
   timestamp |-> Now]

(* Steps 3 and after of verify_image: the criteria and the verdict. *)
V2_evaluate(image_path, m, wd, det, mask, quality) ==
  LET area_ok == V2_check_area_ratio(mask)
      background_white == V2_check_white_background(wd, mask)
      orientation_result == V2_classify_orientation(wd, det.bbox)
      side_view == orientation_result.side_view
      facing_left == orientation_result.facing_left
      failure_reasons == V2_failure_reasons(area_ok, background_white,
                                            side_view, facing_left)
      all_passed == V2_all_passed(det.is_car, area_ok, background_white,
                                  side_view, facing_left)
      result == [result |-> IF all_passed THEN "Yes" ELSE "No",
                 timestamp |-> Now, model_used |-> V2_MODEL_USED]
      detailed ==
        With(With(With(With(result, "criteria",
               [contains_car |-> det.is_car, proper_segmentation |-> TRUE,
                white_background |-> background_white,
                proper_size |-> area_ok, side_view |-> side_view,
                facing_left |-> facing_left]),
             "orientation_confidence", orientation_result.confidence_scores),
             "quality_score", quality.quality_score),
             "image_path", image_path)
      shaped == IF m = "detailed" THEN detailed ELSE result
  IN  IF all_passed THEN shaped
      ELSE With(shaped, "failure_reasons", failure_reasons)

(* verify_image of version 2: the record returned and, in order, the      *)
(* collaborators it invoked.                                               *)
V2_verify_image(image_path, m, wd) ==
  IF ~wd.exists
    THEN [res |-> V2_file_not_found, calls |-> <<>>]
  ELSE IF wd.fault = "imread"
    THEN [res |-> V2_exception(wd), calls |-> <<"imread">>]
  ELSE IF ~wd.readable
    THEN [res |-> [result |-> "Error", error |-> "Invalid image format",
                   timestamp |-> Now],
          calls |-> <<"imread">>]
  ELSE IF wd.fault = "quality"
    THEN [res |-> V2_exception(wd),
          calls |-> <<"imread", "validate_image_quality">>]
  ELSE LET quality == V2_validate_image_quality(wd)
           gate == <<"imread", "validate_image_quality">>
       IN  IF ~quality.is_valid
             THEN [res |-> V2_quality_error(quality), calls |-> gate]
           ELSE IF wd.fault = "detect"
             THEN [res |-> V2_exception(wd),
                   calls |-> gate \o <<"detect_car">>]
           ELSE LET det == V2_detect_car(wd)
                IN  IF ~det.is_car \/ det.bbox = <<>>
                      THEN [res |-> V2_no_car(image_path, m, quality),
                            calls |-> gate \o <<"detect_car">>]
                    ELSE IF wd.fault = "evaluate"
                      THEN [res |-> V2_exception(wd),
                            calls |-> gate \o <<"detect_car", "segment_car",
                                                "evaluate">>]
                    ELSE [res |-> V2_evaluate(image_path, m, wd, det,
                                     V2_segment_car(wd, det.bbox), quality),
                          calls |-> gate \o <<"detect_car", "segment_car",
                                              "evaluate">>]

(***************************************************************************)
(* Version 3: version3_prompt_engineering                                  *)
(*                                                                         *)
(* The text of the model's reply is a sequence of tokens: the code fence,  *)
(* the language tag, white space, and bodies that are or are not JSON.     *)
(***************************************************************************)
FENCE == "<three backquotes>"
TAG == "json"
WS == "\n"

AllTrue ==
  [contains_car |-> TRUE, side_view |-> TRUE, white_background |-> TRUE,
   proper_size |-> TRUE, correct_orientation |-> TRUE]
AllFalse ==
  [contains_car |-> FALSE, side_view |-> FALSE, white_background |-> FALSE,
   proper_size |-> FALSE, correct_orientation |-> FALSE]

(* The JSON texts a reply may hold and the value json.loads gives each. *)
JsonBodies == {"J_YES", "J_NO", "J_YES_BARE", "J_NO_BARE", "J_LIST"}

JsonValue(tok) ==
  CASE tok = "J_YES" -> [result |-> "Yes", criteria |-> AllTrue]
    [] tok = "J_NO" ->
         [result |-> "No",
          criteria |-> [AllTrue EXCEPT !.white_background = FALSE],
          failure_reasons |-> <<"Background is grey">>]
    [] tok = "J_YES_BARE" -> [result |-> "Yes"]
    [] tok = "J_NO_BARE" -> [result |-> "No"]
    [] tok = "J_LIST" -> [not_an_object |-> TRUE]

Replies ==
  { <<"J_YES">>, <<"J_NO">>, <<"J_YES_BARE">>, <<"J_NO_BARE">>,
    <<WS, "J_NO", WS>>,
    <<FENCE, TAG, WS, "J_YES", WS, FENCE>>,
    <<FENCE, WS, "J_NO", WS, FENCE>>,
    <<FENCE, WS, "J_YES", WS, FENCE>>,
    <<FENCE, TAG, WS, "J_NO_BARE", WS, FENCE>>,
    <<"Sorry, I cannot judge this image.">>,
    <<"Here is the result:", WS, "J_YES">>,
    <<"J_LIST">> }

RECURSIVE lstrip(_)
lstrip(t) == IF t # <<>> /\ Head(t) = WS THEN lstrip(Tail(t)) ELSE t

RECURSIVE rstrip(_)
rstrip(t) ==
  IF t # <<>> /\ t[Len(t)] = WS THEN rstrip(SubSeq(t, 1, Len(t) - 1)) ELSE t

(* str.strip() *)
strip(t) == rstrip(lstrip(t))

(* The clean-up of markdown code blocks in check_car_image. *)
V3_clean(content) ==
  LET raw_text == strip(content)
      no_head == IF Len(raw_text) >= 2 /\ raw_text[1] = FENCE
                    /\ raw_text[2] = TAG
                   THEN SubSeq(raw_text, 3, Len(raw_text)) ELSE raw_text
      no_tail == IF no_head # <<>> /\ no_head[Len(no_head)] = FENCE
                   THEN SubSeq(no_head, 1, Len(no_head) - 1) ELSE no_head
  IN  strip(no_tail)

(* json.loads succeeds on exactly one JSON text. *)
V3_json_ok(text) == Len(text) = 1 /\ text[1] \in JsonBodies

(* Mutant: the fallback echoes the parser's message as a second reason. *)
V3_fallback_two_reasons ==
  [result |-> "No", criteria |-> AllFalse,
   failure_reasons |-> <<"Failed to parse GPT response",
                         "Expecting value: line 1 column 1 (char 0)">>,
   error |-> "JSON parsing failed"]

(* Mutant: the fallback reports an error instead of a "No". *)
V3_fallback_as_error ==
  [result |-> "Error", criteria |-> AllFalse,
   failure_reasons |-> <<"Failed to parse GPT response">>,
   error |-> "JSON parsing failed"]

(* The fallback of the except json.JSONDecodeError branch. *)
V3_fallback ==
  [result |-> "No", criteria |-> AllFalse,
   failure_reasons |-> <<"Failed to parse GPT response">>,
   error |-> "JSON parsing failed"]

(* The backward-compatibility block after json.loads. *)
V3_complete(result) ==
  IF "criteria" \notin DOMAIN result /\ "result" \in DOMAIN result
     /\ result.result \in {"Yes", "No"}
    THEN LET filled == With(result, "criteria",
                            IF result.result = "Yes" THEN AllTrue
                            ELSE AllFalse)
         IN  IF result.result = "No"
               THEN With(filled, "failure_reasons",
                         <<"Detailed analysis not available">>)
               ELSE filled
    ELSE result

(* Images the vision pipeline is run on: the reply of the model, or the   *)
(* stage that raises.                                                      *)
V3_GoodImage == [exists |-> TRUE, fault |-> "none", reply |-> <<"J_YES">>]

V3_Images ==
  { [V3_GoodImage EXCEPT !.reply = r] : r \in Replies }
  \cup { [V3_GoodImage EXCEPT !.exists = FALSE],
         [V3_GoodImage EXCEPT !.fault = "open"],
         [V3_GoodImage EXCEPT !.fault = "api"] }

(* check_car_image: [raised, value] and the collaborators invoked.  A     *)
(* reply that is JSON but no object raises at result.get.                  *)
V3_check_car_image(wd) ==
  IF wd.fault = "open"
    THEN [raised |-> TRUE, text |-> str_e(wd), calls |-> <<"open">>]
  ELSE IF wd.fault = "api"
    THEN [raised |-> TRUE, text |-> str_e(wd),
          calls |-> <<"open", "chat.completions.create">>]
  ELSE LET raw_text == V3_clean(wd.reply)
           calls == <<"open", "chat.completions.create", "json.loads">>
       IN  IF ~V3_json_ok(raw_text)
             THEN [raised |-> FALSE, value |-> V3_fallback, calls |-> calls]
           ELSE IF raw_text[1] = "J_LIST"
             THEN [raised |-> TRUE,
                   text |-> "list object has no attribute get",
                   calls |-> calls]
           ELSE [raised |-> FALSE,
                 value |-> V3_complete(JsonValue(raw_text[1])),
                 calls |-> calls]

V3_MODEL_USED == "gpt-4o"

(* Mutant: without the os.path.exists test the open() of check_car_image  *)
(* raises and the except branch answers.                                   *)
V3_file_not_found_unchecked(image_path) ==
  [res |-> [result |-> "Error", error |-> "No such file or directory",
            timestamp |-> Now, image_path |-> image_path],
   calls |-> <<"open">>]

(* The "File not found" return of validate_single_image: nothing invoked. *)
V3_file_not_found(image_path) ==
  [res |-> [result |-> "Error", error |-> "File not found",
            timestamp |-> Now],
   calls |-> <<>>]

(* validate_single_image: the record returned and the collaborators       *)
(* invoked.  The mode does not change the record.                          *)
V3_validate_single_image(image_path, m, wd) ==
  IF ~wd.exists
    THEN V3_file_not_found(image_path)
  ELSE LET got == V3_check_car_image(wd)
       IN  IF got.raised
             THEN [res |-> [result |-> "Error", error |-> got.text,
                            timestamp |-> Now, image_path |-> image_path],
                   calls |-> got.calls]
             ELSE [res |-> With(With(With(got.value, "timestamp", Now),
                                     "model_used", V3_MODEL_USED),
                                "image_path", image_path),
                   calls |-> got.calls]

(***************************************************************************)
(* A single validation call: verify_image (versions 1 and 2) or            *)
(* validate_single_image (version 3) on one path.                          *)
(***************************************************************************)
NoCall == [called |-> FALSE]
NoResults == [k \in {} |-> NoCall]
NoDir == [exists |-> FALSE, files |-> {}]

Paths == { <<"car", ".jpg">>, <<"car", ".png">> }

Returned(image_path, wd, out) ==
  [called |-> TRUE, image_path |-> image_path, img |-> wd,
   res |-> out.res, calls |-> out.calls]

Init ==
  /\ pipeline \in Pipelines
  /\ mode \in Modes
  /\ pc = "idle"
  /\ last = NoCall
  /\ image_dir = NoDir
  /\ image_files = <<>>
  /\ results = NoResults
  /\ written = NoResults

V1_VerifyImage ==
  /\ pipeline = "v1" /\ pc = "idle"
  /\ \E image_path \in Paths, wd \in Images("v1") :
       last' = Returned(image_path, wd, V1_verify_image(image_path, mode, wd))
  /\ pc' = "returned"
  /\ UNCHANGED <<written, pipeline, mode, image_dir, image_files, results>>

V2_VerifyImage ==
  /\ pipeline = "v2" /\ pc = "idle"
  /\ \E image_path \in Paths, wd \in Images("v2") :
       last' = Returned(image_path, wd, V2_verify_image(image_path, mode, wd))
  /\ pc' = "returned"
  /\ UNCHANGED <<written, pipeline, mode, image_dir, image_files, results>>

V3_ValidateSingleImage ==
  /\ pipeline = "v3" /\ pc = "idle"
  /\ \E image_path \in Paths, wd \in V3_Images :
       last' = Returned(image_path, wd,
                        V3_validate_single_image(image_path, mode, wd))
  /\ pc' = "returned"
  /\ UNCHANGED <<written, pipeline, mode, image_dir, image_files, results>>

Next == V1_VerifyImage \/ V2_VerifyImage \/ V3_ValidateSingleImage

Spec == Init /\ [][Next]_vars

(***************************************************************************)
(* Batch validation: validate_multiple_images over a directory.            *)
(***************************************************************************)
(* str.lower() on a token of a file name. *)
lower(tok) ==
  CASE tok = ".PNG" -> ".png"
    [] tok = "Car" -> "car"
    [] OTHER -> tok

(* os.path.splitext(name) = <<root, ext>>: the extension is the last token. *)
splitext(name) ==
  IF Len(name) >= 2 THEN <<SubSeq(name, 1, Len(name) - 1), name[Len(name)]>>
  ELSE <<name, "">>

V1_image_extensions == {".jpg", ".jpeg", ".png", ".bmp", ".tiff", ".webp"}
V2_image_extensions == {".jpg", ".jpeg", ".png", ".bmp", ".tiff"}

(* os.path.splitext(f.lower())[1] in image_extensions *)
V1_is_image(name) == lower(splitext(name)[2]) \in V1_image_extensions

(* f.lower().endswith(image_extensions) *)
V2_is_image(name) == lower(name[Len(name)]) \in V2_image_extensions

(* str.replace(old, ""): every occurrence of the token goes. *)
replace(name, old) == SelectSeq(name, LAMBDA tok : tok # old)

(* filename.replace('.png', '').replace('.jpg', '').replace('.jpeg', '') *)
V2_clean_key(filename) ==
  replace(replace(replace(filename, ".png"), ".jpg"), ".jpeg")

Index(name) == CHOOSE i \in 1..Len(Names) : Names[i] = name

(* The orders in which os.listdir may give the files of a set. *)
Listings(S) ==
  { s \in UNION { [1..n -> S] : n \in {Cardinality(S)} } :
      \A i, j \in 1..Len(s) : i # j => s[i] # s[j] }

(* sorted(image_files) *)
sorted(S) ==
  CHOOSE s \in Listings(S) :
    \A i, j \in 1..Len(s) : i < j => Index(s[i]) < Index(s[j])

Directories ==
  { NoDir }
  \cup { [exists |-> TRUE, files |-> S] :
           S \in { T \in SUBSET NameSet : Cardinality(T) <= MaxFiles } }

(* The images a batch is run on: one for each way a validation ends. *)
BatchImages(pl) ==
  IF pl = "v3" THEN V3_Images
  ELSE { GoodImage,
         [GoodImage EXCEPT !.readable = FALSE],
         [GoodImage EXCEPT !.fault = "detect"],
         [GoodImage EXCEPT !.fault = "evaluate"],
         [GoodImage EXCEPT !.brightness = 20, !.blur = 50],
         [GoodImage EXCEPT !.dets = <<>>],
         [GoodImage EXCEPT !.bg = <<100, 100, 100>>] }

(* results[key] = value *)
Store(map, key, value) ==
  [k \in DOMAIN map \cup {key} |-> IF k = key THEN value ELSE map[k]]

(* {"error": message}; the keys of a mapping are token sequences. *)
ErrorReturn(message) == [k \in {<<"error">>} |-> message]

BatchInit ==
  /\ pipeline \in Pipelines
  /\ mode \in Modes
  /\ pc = "start"
  /\ last = NoCall
  /\ image_dir \in Directories
  /\ image_files = <<>>
  /\ results = NoResults
  /\ written = NoResults

(* validate_multiple_images of versions 1 and 3 up to its loop. *)
V1_ListImages ==
  /\ pipeline \in {"v1", "v3"} /\ pc = "start"
  /\ IF ~image_dir.exists
       THEN /\ results' = ErrorReturn("Directory not found")
            /\ pc' = "returned"
            /\ UNCHANGED image_files
       ELSE /\ image_files' \in
                 Listings({f \in image_dir.files : V1_is_image(f)})
            /\ pc' = "loop"
            /\ UNCHANGED results
  /\ UNCHANGED <<written, pipeline, mode, last, image_dir>>

(* validate_multiple_images of version 2 up to its loop. *)
V2_ListImages ==
  /\ pipeline = "v2" /\ pc = "start"
  /\ IF ~image_dir.exists
       THEN /\ results' = ErrorReturn("Directory not found")
            /\ pc' = "returned"
            /\ UNCHANGED image_files
       ELSE IF {f \in image_dir.files : V2_is_image(f)} = {}
         THEN /\ results' =
                   ErrorReturn("No image files found in directory")
              /\ pc' = "returned"
              /\ UNCHANGED image_files
         ELSE /\ image_files' =
                   sorted({f \in image_dir.files : V2_is_image(f)})
              /\ pc' = "loop"
              /\ UNCHANGED results
  /\ UNCHANGED <<written, pipeline, mode, last, image_dir>>

(* One iteration of the loop of version 1. *)
V1_BatchStep ==
  /\ pipeline = "v1" /\ pc = "loop" /\ image_files # <<>>
  /\ \E wd \in BatchImages("v1") :
       LET image_file == Head(image_files)
           result == V1_verify_image(image_file, mode, wd).res
       IN  results' = Store(results, image_file, result)
  /\ image_files' = Tail(image_files)
  /\ UNCHANGED <<written, pipeline, mode, pc, last, image_dir>>

(* One iteration of the loop of version 2. *)
V2_BatchStep ==
  /\ pipeline = "v2" /\ pc = "loop" /\ image_files # <<>>
  /\ \E wd \in BatchImages("v2") :
       LET filename == Head(image_files)
           result == V2_verify_image(filename, mode, wd).res
           clean_key == V2_clean_key(filename)
       IN  results' = IF mode = "simple"
                        THEN Store(results, clean_key,
                                   [result |-> result.result])
                        ELSE Store(results, filename, result)
  /\ image_files' = Tail(image_files)
  /\ UNCHANGED <<written, pipeline, mode, pc, last, image_dir>>

(* One iteration of the loop of version 3. *)
V3_BatchStep ==
  /\ pipeline = "v3" /\ pc = "loop" /\ image_files # <<>>
  /\ \E wd \in BatchImages("v3") :
       LET image_file == Head(image_files)
           result == V3_validate_single_image(image_file, mode, wd).res
       IN  results' = Store(results, image_file, result)
  /\ image_files' = Tail(image_files)
  /\ UNCHANGED <<written, pipeline, mode, pc, last, image_dir>>

(* return results *)
BatchReturn ==
  /\ pc = "loop" /\ image_files = <<>>
  /\ pc' = "returned"
  /\ UNCHANGED <<written, pipeline, mode, last, image_dir, image_files,
                 results>>

(* The "simple" format of main in versions 1 and 3: the keys lose their    *)
(* extension and the values keep the result alone.  Of the names that      *)
(* share a key the last one listed stays, which may be any of them.        *)
V1_simple_results(res) ==
  LET clean_name(image_name) == splitext(image_name)[1]
  IN  { simple_results \in
          [ {clean_name(n) : n \in DOMAIN res} ->
              {[result |-> r] : r \in {"Yes", "No", "Error"}} ] :
          \A key \in DOMAIN simple_results :
            \E n \in DOMAIN res :
              /\ clean_name(n) = key
              /\ simple_results[key] = [result |-> res[n].result] }

(* main of versions 1 and 3 after validate_multiple_images, which it      *)
(* calls on a directory only: the object written to the output file.       *)
V1_SaveResults ==
  /\ pipeline \in {"v1", "v3"} /\ pc = "returned" /\ image_dir.exists
  /\ written' \in IF mode = "simple" THEN V1_simple_results(results)
                  ELSE {results}
  /\ pc' = "saved"
  /\ UNCHANGED <<pipeline, mode, last, image_dir, image_files, results>>

(* main of version 2 after validate_multiple_images: an error is printed, *)
(* anything else is written as it is.                                      *)
V2_SaveResults ==
  /\ pipeline = "v2" /\ pc = "returned"
  /\ <<"error">> \notin DOMAIN results
  /\ written' = results
  /\ pc' = "saved"
  /\ UNCHANGED <<pipeline, mode, last, image_dir, image_files, results>>

BatchNext ==
  \/ V1_ListImages \/ V2_ListImages
  \/ V1_BatchStep \/ V2_BatchStep \/ V3_BatchStep
  \/ BatchReturn
  \/ V1_SaveResults \/ V2_SaveResults

BatchSpec == BatchInit /\ [][BatchNext]_vars

(***************************************************************************)
(* Properties.                                                             *)
(***************************************************************************)
Heuristic == pipeline \in {"v1", "v2"}
HasCriteria(r) == "criteria" \in DOMAIN r
EveryCriterion(r) == \A k \in DOMAIN r.criteria : r.criteria[k]
SomeCriterionFalse(r) == \E k \in DOMAIN r.criteria : ~r.criteria[k]

(* The call got past the quality gate of its pipeline. *)
PassedGate ==
  /\ last.called /\ Heuristic
  /\ last.img.exists /\ last.img.readable
  /\ last.img.fault \notin {"imread", "quality"}
  /\ IF pipeline = "v1" THEN V1_validate_image_quality(last.img).is_valid
     ELSE V2_validate_image_quality(last.img).is_valid

(* The call reached the quality gate and the gate rejected the image. *)
GateRejected ==
  /\ last.called /\ Heuristic
  /\ last.img.exists /\ last.img.readable
  /\ last.img.fault \notin {"imread", "quality"}
  /\ IF pipeline = "v1" THEN ~V1_validate_image_quality(last.img).is_valid
     ELSE ~V2_validate_image_quality(last.img).is_valid

(* The detector ran and reported no car (version 1 also when it failed). *)
NoCarReported ==
  /\ PassedGate
  /\ IF pipeline = "v1" THEN ~V1_detect_car(last.img).is_car
     ELSE last.img.fault # "detect" /\ ~V2_detect_car(last.img).is_car

(* A car was detected and the criteria were evaluated without exception. *)
Evaluated ==
  /\ PassedGate
  /\ last.img.fault \notin {"detect", "evaluate"}
  /\ IF pipeline = "v1" THEN V1_detect_car(last.img).is_car
     ELSE V2_detect_car(last.img).is_car

(* C1: a result of a heuristic pipeline that carries criteria is "Yes"     *)
(* exactly when every criterion of that field is true.                     *)
C1_YesIffAllCriteria ==
  (last.called /\ Heuristic /\ HasCriteria(last.res))
    => (last.res.result = "Yes" <=> EveryCriterion(last.res))

C1_Witness ==
  /\ last.called /\ pipeline = "v2" /\ HasCriteria(last.res)
  /\ last.res.result = "Yes"
  /\ Evaluated

(* C2 as claimed: in every pipeline and mode a result is "No" exactly when *)
(* it carries criteria of which one is false, and every "No" result has a  *)
(* non-empty failure_reasons list.                                         *)
C2_Original ==
  last.called =>
    /\ last.res.result = "No"
         <=> (HasCriteria(last.res) /\ SomeCriterionFalse(last.res))
    /\ last.res.result = "No" =>
         /\ "failure_reasons" \in DOMAIN last.res
         /\ last.res.failure_reasons # <<>>

(* C2 amended: the equivalence holds in version 1 and in the detailed mode *)
(* of version 2; in the simple mode of version 2 no result carries         *)
(* criteria; every "No" result of either pipeline has a non-empty          *)
(* failure_reasons list.                                                   *)
C2_NoIffCriterionFalse ==
  (last.called /\ Heuristic) =>
    /\ (pipeline = "v1" \/ mode = "detailed") =>
         (last.res.result = "No"
            <=> (HasCriteria(last.res) /\ SomeCriterionFalse(last.res)))
    /\ (pipeline = "v2" /\ mode = "simple") => ~HasCriteria(last.res)
    /\ last.res.result = "No" =>
         /\ "failure_reasons" \in DOMAIN last.res
         /\ last.res.failure_reasons # <<>>

C2_Witness ==
  /\ last.called /\ pipeline = "v2" /\ mode = "simple"
  /\ Evaluated
  /\ last.res.result = "No" /\ ~HasCriteria(last.res)
  /\ Len(last.res.failure_reasons) = 2

(* The criteria of an evaluated image, in the order size, background,      *)
(* side view, facing direction, as the evaluators of its pipeline give     *)
(* them.                                                                   *)
Verdicts ==
  IF pipeline = "v1"
    THEN LET bbox == V1_detect_car(last.img).bbox
         IN  << V1_check_size_ratio(bbox, last.img.shape),
                V1_check_background_white(last.img, bbox),
                V1_heuristic_orientation_check(bbox),
                V1_check_car_orientation_left(bbox, last.img.shape) >>
    ELSE LET bbox == V2_detect_car(last.img).bbox
             mask == V2_segment_car(last.img, bbox)
         IN  << V2_check_area_ratio(mask),
                V2_check_white_background(last.img, mask),
                V2_classify_orientation(last.img, bbox).side_view,
                V2_classify_orientation(last.img, bbox).facing_left >>

(* The fixed sentences of each pipeline, in the order of the criteria. *)
Sentences ==
  IF pipeline = "v1"
    THEN << "Car does not occupy sufficient portion of image (< 1/4)",
            "Background is not sufficiently white",
            "Car does not appear to be in side view (width/height ratio)",
            "Car does not appear to be facing left" >>
    ELSE << "Car does not occupy sufficient portion of image (< 20%)",
            "Background is not sufficiently white",
            "Car does not appear to be in side view",
            "Car does not appear to be facing left" >>

(* reasons lists, in order, exactly the sentences of the failing criteria. *)
ListsFailing(reasons) ==
  LET failing == {i \in 1..4 : ~Verdicts[i]}
  IN  /\ Len(reasons) = Cardinality(failing)
      /\ \A i \in failing : \E n \in 1..Len(reasons) :
           /\ reasons[n] = Sentences[i]
           /\ n = Cardinality({j \in failing : j < i}) + 1

OnlySizeFails == ~Verdicts[1] /\ Verdicts[2] /\ Verdicts[3] /\ Verdicts[4]

(* C3 as claimed: with a car detected and the verdict "No", the reasons    *)
(* are the sentences of the failing criteria in the order size,            *)
(* background, side view, facing direction, and a failure of the size      *)
(* check alone gives the one entry "... (< 1/4)".                          *)
C3_Original ==
  (Evaluated /\ last.res.result = "No") =>
    /\ ListsFailing(last.res.failure_reasons)
    /\ OnlySizeFails =>
         last.res.failure_reasons =
           <<"Car does not occupy sufficient portion of image (< 1/4)">>

(* C3 amended: the same, but the one entry of a size-only failure is the   *)
(* "(< 1/4)" sentence in version 1 and the "(< 20%)" sentence in version 2.*)
C3_ReasonsInOrder ==
  (Evaluated /\ last.res.result = "No") =>
    /\ ListsFailing(last.res.failure_reasons)
    /\ OnlySizeFails =>
         last.res.failure_reasons =
           IF pipeline = "v1"
             THEN <<"Car does not occupy sufficient portion of image (< 1/4)">>
             ELSE <<"Car does not occupy sufficient portion of image (< 20%)">>

C3_Witness ==
  /\ Evaluated /\ pipeline = "v2" /\ last.res.result = "No"
  /\ OnlySizeFails
  /\ Len(last.res.failure_reasons) = 1

(* C4: no "Error" result of any pipeline carries a criteria field. *)
C4_ErrorHasNoCriteria ==
  (last.called /\ last.res.result = "Error") => ~HasCriteria(last.res)

C4_Witness ==
  /\ GateRejected /\ pipeline = "v2"
  /\ last.res.result = "Error" /\ ~HasCriteria(last.res)

(* C5 as claimed: when the detector reports no car on an image that passed *)
(* the quality gate, the result is "No" with the single reason "No car     *)
(* detected in image" and carries no criteria.                             *)
C5_Original ==
  NoCarReported =>
    /\ last.res.result = "No"
    /\ last.res.failure_reasons = <<"No car detected in image">>
    /\ ~HasCriteria(last.res)

(* C5 amended: the result is "No" with that single reason; it carries a    *)
(* criteria field with every criterion false in version 1 and in the       *)
(* detailed mode of version 2, and no criteria field in the simple mode of *)
(* version 2.                                                              *)
C5_NoCarResult ==
  NoCarReported =>
    /\ last.res.result = "No"
    /\ last.res.failure_reasons = <<"No car detected in image">>
    /\ IF pipeline = "v2" /\ mode = "simple"
         THEN ~HasCriteria(last.res)
         ELSE /\ HasCriteria(last.res)
              /\ \A k \in DOMAIN last.res.criteria : ~last.res.criteria[k]

C5_Witness ==
  /\ NoCarReported /\ pipeline = "v1"
  /\ last.img.dets # <<>>
  /\ last.res.result = "No" /\ HasCriteria(last.res)

HasError(r) == "error" \in DOMAIN r

(* The reply of the vision model is not one JSON text once cleaned. *)
Unparsable ==
  /\ last.called /\ pipeline = "v3"
  /\ last.img.exists /\ last.img.fault = "none"
  /\ ~V3_json_ok(V3_clean(last.img.reply))

(* C6 as claimed: in every result of every pipeline the error field is     *)
(* present exactly when the result is "Error".                             *)
C6_Original ==
  last.called => (HasError(last.res) <=> last.res.result = "Error")

(* C6 amended: that equivalence holds in versions 1 and 2; in version 3    *)
(* every "Error" result carries the error field, and the only other result *)
(* that carries it is the parse-failure fallback, which is "No" with       *)
(* error = "JSON parsing failed".                                          *)
C6_ErrorField ==
  last.called =>
    /\ Heuristic => (HasError(last.res) <=> last.res.result = "Error")
    /\ last.res.result = "Error" => HasError(last.res)
    /\ (pipeline = "v3" /\ HasError(last.res)
          /\ last.res.result # "Error") =>
         /\ Unparsable
         /\ last.res.result = "No"
         /\ last.res.error = "JSON parsing failed"
    /\ Unparsable => HasError(last.res)

C6_Witness ==
  /\ Unparsable
  /\ last.res.result = "No" /\ HasError(last.res)

(* C7: in all three pipelines a path that does not exist gives "Error"     *)
(* with error = "File not found", and neither the image loader, the        *)
(* detector nor the vision model is invoked.                               *)
C7_FileNotFound ==
  (last.called /\ ~last.img.exists) =>
    /\ last.res.result = "Error"
    /\ last.res.error = "File not found"
    /\ \A i \in 1..Len(last.calls) :
         last.calls[i] \notin {"imread", "detect_car",
                               "chat.completions.create"}

C7_Witness ==
  /\ last.called /\ pipeline = "v3" /\ ~last.img.exists
  /\ last.res.result = "Error" /\ last.calls = <<>>

(* What the quality gate reports as the reason of a rejection. *)
GateReason ==
  IF pipeline = "v1" THEN V1_validate_image_quality(last.img).msg
  ELSE Join(V2_validate_image_quality(last.img).issues, ", ")

(* C8 as claimed: a rejection by the quality gate gives "Error" with the   *)
(* error string "Image quality issue: " followed by the reason, in both    *)
(* heuristic pipelines.                                                    *)
C8_Original ==
  GateRejected =>
    /\ last.res.result = "Error"
    /\ last.res.error = "Image quality issue: " \o GateReason

(* C8 amended: the result is "Error" in both pipelines; the error string   *)
(* is "Image quality issue: " and the reason in version 1, and "Image      *)
(* quality issues: " and the issues joined by ", " in version 2.           *)
C8_QualityError ==
  GateRejected =>
    /\ last.res.result = "Error"
    /\ last.res.error =
         IF pipeline = "v1" THEN "Image quality issue: " \o GateReason
         ELSE "Image quality issues: " \o GateReason

C8_Witness ==
  /\ GateRejected /\ pipeline = "v2"
  /\ Len(V2_validate_image_quality(last.img).issues) >= 2
  /\ last.res.result = "Error"

(* The files of the directory that the pipeline takes for images. *)
ImageFilesOfDir ==
  { f \in image_dir.files :
      IF pipeline = "v2" THEN V2_is_image(f) ELSE V1_is_image(f) }

(* C9 as claimed: for a directory with at least one image file the batch   *)
(* returns a mapping with exactly one entry per image file, in every mode, *)
(* each entry a result record.                                             *)
C9_OneEntryPerImage ==
  (pc = "returned" /\ image_dir.exists /\ ImageFilesOfDir # {}) =>
    /\ Cardinality(DOMAIN results) = Cardinality(ImageFilesOfDir)
    /\ \A k \in DOMAIN results :
         results[k].result \in {"Yes", "No", "Error"}

(* The API call of the vision pipeline raised. *)
ApiRaised ==
  /\ last.called /\ pipeline = "v3"
  /\ last.img.exists /\ last.img.fault = "api"

(* The synthetic result, with the fields validate_single_image adds. *)
IsSyntheticNo(r) ==
  /\ r.result = "No"
  /\ HasCriteria(r) /\ \A k \in DOMAIN r.criteria : ~r.criteria[k]
  /\ DOMAIN r.criteria = {"contains_car", "side_view", "white_background",
                          "proper_size", "correct_orientation"}
  /\ r.failure_reasons = <<"Failed to parse GPT response">>
  /\ r.error = "JSON parsing failed"

(* C10 as claimed: on the vision path a raising API call and a reply that  *)
(* cannot be parsed both give the synthetic "No" result.                   *)
C10_Original ==
  (ApiRaised \/ Unparsable) => IsSyntheticNo(last.res)

(* C10 amended: a reply that cannot be parsed gives the synthetic "No"     *)
(* result; a raising API call gives "Error" with the text of the exception *)
(* and no criteria.                                                        *)
C10_ModelFailures ==
  /\ Unparsable => IsSyntheticNo(last.res)
  /\ ApiRaised =>
       /\ last.res.result = "Error"
       /\ last.res.error = str_e(last.img)
       /\ ~HasCriteria(last.res)

C10_Witness ==
  /\ ApiRaised
  /\ last.res.result = "Error"
  /\ "chat.completions.create" \in {last.calls[i] : i \in 1..Len(last.calls)}

(* The five criteria of the vision pipeline. *)
FiveCriteria ==
  {"contains_car", "side_view", "white_background", "proper_size",
   "correct_orientation"}

(* What check_car_image returns for a reply, nothing else failing. *)
Checked(reply) == V3_check_car_image([V3_GoodImage EXCEPT !.reply = reply])

(* C11: for a reply that is not valid JSON check_car_image raises nothing   *)
(* and returns one and the same fallback: result "No", the five criteria    *)
(* all false, a one-element failure_reasons list and                        *)
(* error = "JSON parsing failed".                                           *)
C11_ParseFallback ==
  Unparsable =>
    LET got == Checked(last.img.reply)
    IN  /\ ~got.raised
        /\ got.value.result = "No"
        /\ DOMAIN got.value.criteria = FiveCriteria
        /\ \A k \in FiveCriteria : ~got.value.criteria[k]
        /\ Len(got.value.failure_reasons) = 1
        /\ got.value.error = "JSON parsing failed"
        /\ \A r \in Replies :
             ~V3_json_ok(V3_clean(r)) => Checked(r).value = got.value
        /\ \A k \in DOMAIN got.value : last.res[k] = got.value[k]

C11_Witness ==
  /\ Unparsable
  /\ last.img.reply = <<"Sorry, I cannot judge this image.">>
  /\ last.res.result = "No"
  /\ last.res.failure_reasons = <<"Failed to parse GPT response">>

(* The JSON texts that are result objects. *)
ResultObjects == {"J_YES", "J_NO", "J_YES_BARE", "J_NO_BARE"}

(* A result object wrapped in a markdown code fence, with or without the   *)
(* language tag after the opening fence.                                   *)
Fenced(reply) ==
  \E b \in ResultObjects :
    reply \in { <<FENCE, TAG, WS, b, WS, FENCE>>, <<FENCE, WS, b, WS, FENCE>> }

(* The object a fenced reply wraps. *)
Unwrapped(reply) == <<reply[Len(reply) - 2]>>

(* C12 as claimed: a valid result object wrapped in a code fence, with or   *)
(* without a language tag, is parsed to the same result as the object       *)
(* alone.                                                                   *)
C12_FenceTolerated ==
  (last.called /\ pipeline = "v3" /\ last.img.exists
     /\ last.img.fault = "none" /\ Fenced(last.img.reply)) =>
    Checked(last.img.reply) = Checked(Unwrapped(last.img.reply))

(* C13: classify_orientation gives facing_left only with side_view; when   *)
(* side_view is false, facing_left is false and neither the space ratio    *)
(* nor the facing score is reported, and verify_image passes both on.      *)
C13_FacingNeedsSideView ==
  (Evaluated /\ pipeline = "v2") =>
    LET bbox == V2_detect_car(last.img).bbox
        orientation_result == V2_classify_orientation(last.img, bbox)
    IN  /\ orientation_result.side_view = V2_side_view(bbox)
        /\ orientation_result.facing_left => orientation_result.side_view
        /\ ~orientation_result.side_view =>
             /\ ~orientation_result.facing_left
             /\ DOMAIN orientation_result.confidence_scores =
                  {"aspect_ratio", "position"}
        /\ mode = "detailed" =>
             /\ last.res.criteria.side_view = orientation_result.side_view
             /\ last.res.criteria.facing_left = orientation_result.facing_left
             /\ last.res.orientation_confidence =
                  orientation_result.confidence_scores

(* A box that is no side view but whose position and spaces would score. *)
C13_Witness ==
  /\ Evaluated /\ pipeline = "v2" /\ mode = "detailed"
  /\ ~V2_side_view(V2_detect_car(last.img).bbox)
  /\ V2_facing_left_score(V2_detect_car(last.img).bbox, last.img.shape)
       >= V2_FACING_SCORE
  /\ ~last.res.criteria.facing_left
  /\ "left_facing_factors" \notin DOMAIN last.res.orientation_confidence

(* The masks segment_car can give on an image of the shape of the last one. *)
MasksOfShape ==
  { V2_segment_car([last.img EXCEPT !.white = w], b) :
      b \in {x \in Boxes : Fits(x, last.img.shape)}, w \in WhiteShares }

(* C14: for a fixed image size, a size check that passes for a box (version *)
(* 1, threshold 0.25) or a mask (version 2, threshold 0.20) passes for      *)
(* every box or mask of larger or equal area.                               *)
C14_SizeMonotonic ==
  Evaluated =>
    IF pipeline = "v1"
      THEN LET bbox == V1_detect_car(last.img).bbox
           IN  \A b \in Boxes :
                 (Fits(b, last.img.shape) /\ BoxArea(b) >= BoxArea(bbox)
                    /\ last.res.criteria.proper_size)
                   => V1_check_size_ratio(b, last.img.shape)
      ELSE LET mask == V2_segment_car(last.img, V2_detect_car(last.img).bbox)
           IN  \A m \in MasksOfShape :
                 (m.car_pixels >= mask.car_pixels
                    /\ V2_check_area_ratio(mask))
                   => V2_check_area_ratio(m)

(* A box that passes the check of version 1 with a larger box at hand. *)
C14_Witness ==
  /\ Evaluated /\ pipeline = "v1"
  /\ last.res.criteria.proper_size
  /\ \E b \in Boxes :
       /\ Fits(b, last.img.shape)
       /\ BoxArea(b) > BoxArea(V1_detect_car(last.img).bbox)

(* The worked example: the box is 30% of the image, its aspect ratio is    *)
(* 2.0, the background is (200,200,200) and its centre is at 0.5.          *)
WorkedExample ==
  /\ last.called /\ pipeline = "v1"
  /\ last.img.exists /\ last.img.readable /\ last.img.fault = "none"
  /\ last.img.brightness = 128
  /\ last.img.shape = <<120, 200>>
  /\ last.img.dets = <<Det(2, 90, <<40, 0, 160, 60>>)>>
  /\ last.img.bg = <<200, 200, 200>>

(* C15: in version 1, for an image that passed the quality gate and has a  *)
(* detected box, the verdict is "Yes" exactly when the box covers at least *)
(* 0.25 of the image, its width is at least 1.8 times its height (false    *)
(* for height 0), the mean of the pixels outside the box exceeds 180 in    *)
(* every channel (false when there is none) and floor((x1+x2)/2) over the  *)
(* image width lies in [0.3, 0.8]; the worked example gives "Yes".         *)
C15_BoundingBoxVerdict ==
  /\ (Evaluated /\ pipeline = "v1") =>
       LET bbox == V1_detect_car(last.img).bbox
           w == bbox[3] - bbox[1]
           h == bbox[4] - bbox[2]
           H == last.img.shape[1]
           W == last.img.shape[2]
           centre == (bbox[1] + bbox[3]) \div 2
       IN  last.res.result = "Yes" <=>
             /\ 4 * w * h >= H * W
             /\ h > 0 /\ 5 * w >= 9 * h
             /\ H * W - w * h > 0
             /\ \A c \in 1..3 : last.img.bg[c] > 180
             /\ 10 * centre >= 3 * W /\ 10 * centre <= 8 * W
  /\ WorkedExample => last.res.result = "Yes"

C15_Witness ==
  /\ WorkedExample /\ Evaluated
  /\ last.res.result = "Yes"
  /\ EveryCriterion(last.res)

(* The mask-based background check ran on a non-empty background. *)
BackgroundChecked ==
  /\ Evaluated /\ pipeline = "v2"
  /\ LET mask == V2_segment_car(last.img, V2_detect_car(last.img).bbox)
     IN  mask.size - mask.car_pixels > 0

(* white_background as verify_image of version 2 got it. *)
WhiteBackground ==
  V2_check_white_background(
    last.img, V2_segment_car(last.img, V2_detect_car(last.img).bbox))

(* C16 as claimed: a background averaging (210,205,150) passes the          *)
(* brightness sub-check and fails only the balance sub-check, so            *)
(* white_background is false.                                               *)
C16_Original ==
  (BackgroundChecked /\ last.img.bg = <<210, 205, 150>>) =>
    /\ V2_is_bright(last.img.bg)
    /\ ~V2_is_balanced(last.img.bg)
    /\ ~WhiteBackground

(* C16 amended: white_background is true exactly when every channel mean   *)
(* exceeds 200 and the spread of the means is below 20; a background       *)
(* averaging (210,205,150) fails both sub-checks (150 is not above 200,    *)
(* the spread is 60), and one averaging (250,225,210) passes the           *)
(* brightness and fails only the balance, so the balance is enforced       *)
(* independently of the brightness.                                        *)
C16_BalanceEnforced ==
  BackgroundChecked =>
    LET avg == last.img.bg
        spread == Max3(avg) - Min3(avg)
        bright == avg[1] > 200 /\ avg[2] > 200 /\ avg[3] > 200
    IN  /\ WhiteBackground <=> (bright /\ spread < 20)
        /\ V2_is_bright(avg) <=> bright
        /\ V2_is_balanced(avg) <=> spread < 20
        /\ mode = "detailed" =>
             last.res.criteria.white_background = WhiteBackground
        /\ avg = <<210, 205, 150>> =>
             ~bright /\ spread = 60 /\ ~WhiteBackground
        /\ avg = <<250, 225, 210>> =>
             bright /\ spread = 40 /\ ~WhiteBackground

C16_Witness ==
  /\ BackgroundChecked /\ mode = "detailed"
  /\ last.img.bg = <<210, 205, 150>>
  /\ ~V2_is_bright(last.img.bg) /\ ~V2_is_balanced(last.img.bg)
  /\ ~last.res.criteria.white_background

(* The name of an image file without its extension. *)
WithoutExtension(name) == SubSeq(name, 1, Len(name) - 1)

(* C17 as claimed: the mapping a heuristic pipeline writes in "simple" mode *)
(* is keyed by the image filenames without their extension, for every      *)
(* supported extension, with values that hold the result alone; in         *)
(* "detailed" mode it is keyed by the filenames, with the full records.    *)
C17_WrittenKeys ==
  (pc = "saved" /\ Heuristic) =>
    IF mode = "simple"
      THEN /\ DOMAIN written = {WithoutExtension(f) : f \in ImageFilesOfDir}
           /\ \A k \in DOMAIN written : DOMAIN written[k] = {"result"}
      ELSE /\ DOMAIN written = ImageFilesOfDir
           /\ written = results

(* The call reached the quality gate of its pipeline. *)
ReachedGate ==
  /\ last.called /\ Heuristic
  /\ last.img.exists /\ last.img.readable
  /\ last.img.fault \notin {"imread", "quality"}

(* The quality problems of the last image, by the thresholds of its        *)
(* pipeline, in the order the gate looks for them.                         *)
QualityProblems ==
  LET h == last.img.shape[1]
      w == last.img.shape[2]
      b == last.img.brightness
  IN  IF pipeline = "v1"
        THEN (IF h < 100 \/ w < 100
                THEN <<"Image resolution too low">> ELSE <<>>)
             \o (IF b < 30 THEN <<"Image too dark">> ELSE <<>>)
             \o (IF b > 250 THEN <<"Image too bright">> ELSE <<>>)
        ELSE (IF h < 200 \/ w < 200 THEN <<"Low resolution">> ELSE <<>>)
             \o (IF b < 50 THEN <<"Too dark">> ELSE <<>>)
             \o (IF b > 240 THEN <<"Too bright/overexposed">> ELSE <<>>)
             \o (IF last.img.contrast < 20 THEN <<"Low contrast">> ELSE <<>>)
             \o (IF last.img.blur < 100
                   THEN <<"Image appears blurry">> ELSE <<>>)

(* What the gate reports of the last image. *)
Diagnostics ==
  IF pipeline = "v1"
    THEN IF V1_validate_image_quality(last.img).is_valid THEN <<>>
         ELSE <<V1_validate_image_quality(last.img).msg>>
    ELSE V2_validate_image_quality(last.img).issues

(* C18 as claimed: the quality gate evaluates all of its checks, so its    *)
(* diagnostics report every quality problem of the image.                  *)
C18_Original == ReachedGate => Diagnostics = QualityProblems

(* C18 amended: the gate of version 2 evaluates all of its checks and      *)
(* reports every problem; the gate of version 1 returns at the first       *)
(* failing check, in the order resolution, too dark, too bright, and       *)
(* reports that one alone.                                                 *)
C18_Diagnostics ==
  ReachedGate =>
    /\ pipeline = "v2" => Diagnostics = QualityProblems
    /\ pipeline = "v1" =>
         /\ Diagnostics = IF QualityProblems = <<>> THEN <<>>
                          ELSE <<Head(QualityProblems)>>
         /\ GateRejected <=> QualityProblems # <<>>
         /\ GateRejected =>
              last.res.error =
                "Image quality issue: " \o Head(QualityProblems)
    /\ (pipeline = "v2" /\ GateRejected) =>
         last.res.error =
           "Image quality issues: " \o Join(QualityProblems, ", ")

(* An image of version 1 with a low resolution that is too dark as well. *)
C18_Witness ==
  /\ GateRejected /\ pipeline = "v1"
  /\ Len(QualityProblems) = 2
  /\ last.res.error = "Image quality issue: Image resolution too low"

(* The penalty of an issue of version 2, in tenths. *)
Penalty(issue) ==
  CASE issue = "Low resolution" -> 3
    [] issue \in {"Too dark", "Too bright/overexposed"} -> 2
    [] issue = "Low contrast" -> 2
    [] issue = "Image appears blurry" -> 3

RECURSIVE Penalties(_)
Penalties(issues) ==
  IF issues = <<>> THEN 0 ELSE Penalty(Head(issues)) + Penalties(Tail(issues))

(* C19: in the quality gate of version 2 the score starts at 1.0, loses    *)
(* 0.3 for a low resolution, 0.2 for too dark or too bright, 0.2 for a low *)
(* contrast and 0.3 for blur, stays within [0, 1], and the image is        *)
(* invalid exactly when the score is <= 0.5 or three or more issues were   *)
(* found.  Scores are in tenths.                                           *)
C19_QualityScore ==
  (ReachedGate /\ pipeline = "v2") =>
    LET quality == V2_validate_image_quality(last.img)
        score == quality.quality_score
    IN  /\ quality.issues = QualityProblems
        /\ score = Max(0, 10 - Penalties(QualityProblems))
        /\ score >= 0 /\ score <= 10
        /\ ~quality.is_valid <=> (score <= 5 \/ Len(QualityProblems) >= 3)
        /\ GateRejected <=> ~quality.is_valid
        /\ "quality_score" \in DOMAIN last.res =>
             last.res.quality_score = score

(* Two issues that bring the score to exactly 0.5. *)
C19_Witness ==
  /\ GateRejected /\ pipeline = "v2"
  /\ Len(QualityProblems) = 2
  /\ last.res.quality_score = 5

(* segment_car ran on the box of the last image. *)
Segmented ==
  /\ PassedGate /\ pipeline = "v2"
  /\ last.img.fault \in {"none", "segment"}
  /\ V2_detect_car(last.img).is_car

(* C20: the mask of segment_car has the dimensions of the image and is 0   *)
(* outside the box; inside the box the pixels that are not very white are  *)
(* car, unless the very white ones are more than 40% of the box, in which  *)
(* case every pixel of the box is car (at exactly 40% they stay excluded); *)
(* so at least 60% of the box is always car.                               *)
C20_SafetyValve ==
  Segmented =>
    LET bbox == V2_detect_car(last.img).bbox
        mask == V2_segment_car(last.img, bbox)
        total == (bbox[3] - bbox[1]) * (bbox[4] - bbox[2])
        white == (total * last.img.white) \div 100
    IN  /\ mask.size = last.img.shape[1] * last.img.shape[2]
        /\ mask.car_outside = 0
        /\ last.img.fault = "none" =>
             mask.car_pixels = IF 10 * white > 4 * total THEN total
                               ELSE total - white
        /\ 10 * mask.car_pixels >= 6 * total
        /\ mask.car_pixels <= total
        /\ mode = "detailed" =>
             (last.res.criteria.proper_size
                <=> 5 * mask.car_pixels >= mask.size)

(* Exactly 40% of the box is very white and stays excluded. *)
C20_Witness ==
  /\ Segmented /\ last.img.fault = "none" /\ last.img.white = 40
  /\ LET bbox == V2_detect_car(last.img).bbox
         mask == V2_segment_car(last.img, bbox)
     IN  /\ BoxArea(bbox) > 0
         /\ 10 * mask.car_pixels = 6 * BoxArea(bbox)

(* The detections that qualify: class car, confidence strictly above 0.5. *)
Qualifying(dets) ==
  {i \in 1..Len(dets) : dets[i].cls = 2 /\ dets[i].conf > 50}

(* The most confident of the qualifying detections, the first on a tie. *)
BestIndex(dets) ==
  CHOOSE i \in Qualifying(dets) :
    \A j \in Qualifying(dets) :
      \/ dets[i].conf > dets[j].conf
      \/ dets[i].conf = dets[j].conf /\ i <= j

(* C21: on every list of detections the detect_car of version 1 and that   *)
(* of version 2 return the same answer: the box of the most confident       *)
(* detection of class 2 with confidence strictly above 0.5, the first one   *)
(* on a tie, and not found with no box when none qualifies.                 *)
C21_SameDetection ==
  (PassedGate /\ last.img.fault = "none") =>
    LET dets == last.img.dets
        expected == IF Qualifying(dets) = {} THEN [is_car |-> FALSE,
                                                   bbox |-> <<>>]
                    ELSE [is_car |-> TRUE, bbox |-> dets[BestIndex(dets)].bbox]
    IN  /\ V1_detect_car(last.img) = expected
        /\ V2_detect_car(last.img) = expected
        /\ (last.res.result = "No"
              /\ last.res.failure_reasons = <<"No car detected in image">>)
             <=> Qualifying(dets) = {}

(* Three detections, the first and the last equally confident. *)
C21_Witness ==
  /\ PassedGate /\ last.img.fault = "none" /\ pipeline = "v2"
  /\ Len(last.img.dets) = 3
  /\ last.img.dets[1].conf = last.img.dets[3].conf
  /\ V2_detect_car(last.img).bbox = last.img.dets[1].bbox
  /\ last.res.result = "Yes"

(* The position bonus of a box: floor((x1+x2)/2) / image_width is in       *)
(* [0.48, 0.51].                                                           *)
PositionBonus(bbox, shape) ==
  LET centre == (bbox[1] + bbox[3]) \div 2
  IN  IF 100 * centre >= 48 * shape[2] /\ 100 * centre <= 51 * shape[2]
        THEN 1 ELSE 0

(* The space bonus of a box, for space_ratio = x1 / (image_width - x2 + 1). *)
SpaceBonus(bbox, shape) ==
  LET num == bbox[1]
      den == shape[2] - bbox[3] + 1
  IN  IF 100 * num <= 15 * den THEN 2
      ELSE IF 10 * num >= 7 * den /\ 10 * num <= 10 * den THEN 2
      ELSE IF 10 * num >= 4 * den /\ 100 * num <= 69 * den THEN 1
      ELSE 0

StageOrder ==
  IF pipeline = "v1"
    THEN <<"imread", "validate_image_quality", "detect_car", "evaluate">>
    ELSE <<"imread", "validate_image_quality", "detect_car", "segment_car",
           "evaluate">>

(* The image has quality problems that its pipeline does not accept. *)
Unusable ==
  IF pipeline = "v1" THEN QualityProblems # <<>>
  ELSE 10 - Penalties(QualityProblems) <= 5 \/ Len(QualityProblems) >= 3

Invoked(stage) == \E i \in 1..Len(last.calls) : last.calls[i] = stage

(* C23: within one validation of a heuristic pipeline the stages run in    *)
(* the order quality gate, detector, segmentation (version 2), criterion   *)
(* evaluators and aggregation; the detector is not invoked for an image    *)
(* the gate rejects, nor segmentation and the evaluators when no car is    *)
(* detected.                                                               *)
C23_StageOrder ==
  (last.called /\ Heuristic) =>
    /\ Len(last.calls) <= Len(StageOrder)
    /\ last.calls = SubSeq(StageOrder, 1, Len(last.calls))
    /\ (ReachedGate /\ Unusable) =>
         /\ Invoked("validate_image_quality")
         /\ ~Invoked("detect_car") /\ ~Invoked("segment_car")
         /\ ~Invoked("evaluate")
    /\ (ReachedGate /\ ~Unusable /\ Qualifying(last.img.dets) = {}) =>
         /\ Invoked("detect_car")
         /\ ~Invoked("segment_car") /\ ~Invoked("evaluate")
    /\ last.res.result = "Yes" => last.calls = StageOrder

(* No car among the detections of an image that passed the gate. *)
C23_Witness ==
  /\ NoCarReported /\ pipeline = "v2" /\ last.img.dets # <<>>
  /\ last.calls = <<"imread", "validate_image_quality", "detect_car">>

(* A version 1 image stopped at the gate. *)
C23_GateWitness ==
  /\ last.called /\ pipeline = "v1" /\ ReachedGate /\ Unusable
  /\ last.calls = <<"imread", "validate_image_quality">>

(* The background of the validated image is known pixel by pixel. *)
PixelsKnown == last.called /\ "bg_pixels" \in DOMAIN last.img

(* The mean colour of the background, from the pixels where they are known. *)
MeanColour ==
  IF PixelsKnown
    THEN LET px == last.img.bg_pixels
             n == Len(px)
         IN  << (px[1][1] + px[2][1]) \div n, (px[1][2] + px[2][2]) \div n,
                (px[1][3] + px[2][3]) \div n >>
    ELSE last.img.bg

(* The spread of each background pixel, averaged over the background,      *)
(* stays below t; a background known only by its mean is taken as uniform. *)
PixelSpreadBelow(t) ==
  IF PixelsKnown
    THEN LET px == last.img.bg_pixels
             spread(i) ==
               Max(Max(px[i][1], px[i][2]), px[i][3])
                 - Min3(<<px[i][1], px[i][2], px[i][3]>>)
         IN  spread(1) + spread(2) < t * Len(px)
    ELSE Max3(last.img.bg) - Min3(last.img.bg) < t

(* C24 as claimed: the balance test passes only when the per-pixel spread, *)
(* averaged over the background pixels, is below 20, so a background of    *)
(* strongly tinted pixels with equal channel means is not white.           *)
C24_Original ==
  (BackgroundChecked /\ mode = "detailed") =>
    (last.res.criteria.white_background => PixelSpreadBelow(20))

(* C24 amended: the balance test takes the mean colour of the background   *)
(* pixels and passes when the largest channel mean minus the smallest is   *)
(* below 20; a background of strongly tinted pixels whose channel means    *)
(* are equal and above 200 passes it and is reported white.                *)
C24_BalanceOnMeans ==
  (BackgroundChecked /\ mode = "detailed") =>
    LET avg == MeanColour
        largest == Max(Max(avg[1], avg[2]), avg[3])
        smallest == -Max(Max(-avg[1], -avg[2]), -avg[3])
        bright == avg[1] > 200 /\ avg[2] > 200 /\ avg[3] > 200
    IN  /\ last.res.criteria.white_background
             <=> (bright /\ largest - smallest < 20)
        /\ (PixelsKnown /\ ~PixelSpreadBelow(20) /\ bright
              /\ largest = smallest) =>
             last.res.criteria.white_background

(* Tinted pixels of spread 40 each, channel means all 230, reported white. *)
C24_Witness ==
  /\ BackgroundChecked /\ mode = "detailed" /\ PixelsKnown
  /\ ~PixelSpreadBelow(20)
  /\ MeanColour = <<230, 230, 230>>
  /\ last.res.criteria.white_background

====
